---- MODULE Spec2Model ----
(***************************************************************************)
(* Model of the Abel SDK facade (class AbelSDK) and its utilities: the     *)
(* chunker, the result merger, the log decoder, the remote error           *)
(* normalizer and the pMap-driven batched execution of bulk reads and      *)
(* bulk writes.                                                            *)
(*                                                                         *)
(* A JavaScript Map is modelled as [order, val]: the keys in insertion     *)
(* order and the key -> value function.  An Error object is modelled as    *)
(* [obj, message, originalMessage, evalStates]; obj is the object's        *)
(* identity.  Text is a sequence of lexical atoms: "Q" is the double       *)
(* quote, "ERR" the three letters E R R, ":" the colon and "x" any other   *)
(* character.                                                              *)
(***************************************************************************)
EXTENDS Integers, Sequences, FiniteSets, TLC

\* ------------------------------------------------------------------ bounds
\* longest request in the small regime (all lists over SmallIds)
MaxSmallLen == 3
\* largest number of chunks a modelled request is split into
MaxChunks == 5
\* longest diagnostic message, in atoms
MaxMsgLen == 5
\* largest concurrency option passed to the constructor
MaxConcurrency == 3
\* largest number of chunks of each of two calls that run at the same time
MaxPeerChunks == 3
\* longest array handed to chunk directly
MaxArrayLen == 4
\* longest list of maps handed to mergeMapsArr directly
MaxMaps == 3
\* most label creations committed in one history of the registry
MaxCreations == 2

SmallIds == {1, 2, 3}
\* first asset id of the long requests
BigBase == 1000

\* --------------------------------------------------------------- utilities
Min(a, b) == IF a < b THEN a ELSE b

RECURSIVE chunkLoop(_, _, _, _)
chunkLoop(array, chunkSize, i, result) ==
  IF i < Len(array)
    THEN chunkLoop(array, chunkSize, i + chunkSize,
                   Append(result, SubSeq(array, i + 1, Min(i + chunkSize, Len(array)))))
    ELSE result

\* mutant of chunk: the elements after the last full chunk are dropped
chunk_dropsTail(array, chunkSize) ==
  IF chunkSize <= 0
    THEN [threw |-> TRUE, result |-> <<>>]
    ELSE [threw |-> FALSE,
          result |-> [k \in 1..(Len(array) \div chunkSize) |->
                        SubSeq(array, (k - 1) * chunkSize + 1, k * chunkSize)]]

\* mutant of chunk: a chunk size of 0 is let through
chunk_zeroAllowed(array, chunkSize) ==
  IF chunkSize < 0
    THEN [threw |-> TRUE, result |-> <<>>]
    ELSE IF chunkSize = 0
      THEN [threw |-> FALSE, result |-> <<>>]
      ELSE [threw |-> FALSE, result |-> chunkLoop(array, chunkSize, 0, <<>>)]

\* chunk(array, chunkSize): throws for chunkSize <= 0, else the slices in order
chunk(array, chunkSize) ==
  IF chunkSize <= 0
    THEN [threw |-> TRUE, result |-> <<>>]
    ELSE [threw |-> FALSE, result |-> chunkLoop(array, chunkSize, 0, <<>>)]

\* ---- JavaScript Map
EmptyMap == [order |-> <<>>, val |-> <<>>]

MapHas(m, k) == k \in DOMAIN m.val

MapSet(m, k, v) ==
  [order |-> IF MapHas(m, k) THEN m.order ELSE Append(m.order, k),
   val   |-> (k :> v) @@ m.val]

\* mutant of MapSetAll: a key target already has keeps target's value
MapSetAll_keepsFirst(target, m) ==
  LET isNew(k) == ~MapHas(target, k)
  IN [order |-> target.order \o SelectSeq(m.order, isNew),
      val   |-> target.val @@ m.val]

\* map.forEach((value, key) => target.set(key, value)): a key target already
\* has keeps its position and takes m's value, the other keys of m are
\* appended in m's order
MapSetAll(target, m) ==
  LET isNew(k) == ~MapHas(target, k)
  IN [order |-> target.order \o SelectSeq(m.order, isNew),
      val   |-> m.val @@ target.val]

\* new Map(pairs) for the pairs lo..hi: the pairs are set in order, the left
\* half before the right half
RECURSIVE MapFromPairs(_, _, _)
MapFromPairs(pairs, lo, hi) ==
  IF lo > hi THEN EmptyMap
  ELSE IF lo = hi THEN MapSet(EmptyMap, pairs[lo][1], pairs[lo][2])
  ELSE LET mid == (lo + hi) \div 2
       IN MapSetAll(MapFromPairs(pairs, lo, mid), MapFromPairs(pairs, mid + 1, hi))

RECURSIVE mergeLoop(_, _, _)
mergeLoop(mergedMap, maps, i) ==
  IF i > Len(maps)
    THEN mergedMap
    ELSE mergeLoop(MapSetAll(mergedMap, maps[i]), maps, i + 1)

\* mergeMapsArr(maps): copy of maps[0], then every later map set into it in order
mergeMapsArr(maps) ==
  mergeLoop(IF Len(maps) = 0 THEN EmptyMap ELSE MapSetAll(EmptyMap, maps[1]), maps, 2)

\* ------------------------------------------------------------------ errors
Atoms == {"Q", "ERR", ":", "x"}

\* all texts of at most n atoms
Texts(n) == UNION {[1..k -> Atoms] : k \in 0..n}

\* an Error thrown by the transport: its identity, message, the
\* originalMessage property and response.body.data['eval-states']
TransportError(message, hasEvalStates, evalStates) ==
  [obj |-> "transport", message |-> message,
   hasOriginalMessage |-> FALSE, originalMessage |-> <<>>,
   hasEvalStates |-> hasEvalStates, evalStates |-> evalStates]

\* new Error(message)
NewError(message) ==
  [obj |-> "new", message |-> message,
   hasOriginalMessage |-> FALSE, originalMessage |-> <<>>,
   hasEvalStates |-> FALSE, evalStates |-> <<>>]

\* Buffer.from(log, 'base64').toString() of a log entry
base64Decode(log) == log.b64
base64Encode(text) == [b64 |-> text]

startsWithERR(text) == Len(text) >= 1 /\ text[1] = "ERR"

\* the body of the for loop of util.wrapErrors for one eval-state: the decoded
\* last log is thrown when the entry has logs and the last one starts with ERR
evalStateThrows(entry) ==
  /\ entry.hasLogs
  /\ Len(entry.logs) > 0
  /\ startsWithERR(base64Decode(entry.logs[Len(entry.logs)]))

\* mutant of wrapErrors: a failure without a code is thrown as a new Error
wrapErrors_rewraps(e) ==
  IF e.hasEvalStates /\ \E i \in 1..Len(e.evalStates) : evalStateThrows(e.evalStates[i])
    THEN LET i == CHOOSE k \in 1..Len(e.evalStates) :
                    /\ evalStateThrows(e.evalStates[k])
                    /\ \A j \in 1..(k - 1) : ~evalStateThrows(e.evalStates[j])
             logs == e.evalStates[i].logs
         IN NewError(base64Decode(logs[Len(logs)]))
    ELSE NewError(e.message)

\* util.wrapErrors on a failure e: the error that is thrown to the caller
wrapErrors(e) ==
  IF e.hasEvalStates /\ \E i \in 1..Len(e.evalStates) : evalStateThrows(e.evalStates[i])
    THEN LET i == CHOOSE k \in 1..Len(e.evalStates) :
                    /\ evalStateThrows(e.evalStates[k])
                    /\ \A j \in 1..(k - 1) : ~evalStateThrows(e.evalStates[j])
             logs == e.evalStates[i].logs
         IN NewError(base64Decode(logs[Len(logs)]))
    ELSE e

\* /"(ERR:[^"]+)"/ matches message starting at position i
regexMatchesAt(message, i) ==
  /\ i + 4 <= Len(message)
  /\ message[i] = "Q" /\ message[i + 1] = "ERR" /\ message[i + 2] = ":"
  /\ message[i + 3] # "Q"
  /\ \E j \in (i + 4)..Len(message) : message[j] = "Q"

\* /"(ERR:[^"]+)"/.exec(message): whether it matches, and capture group 1 of
\* the leftmost match (up to the first closing quote)
regexExec(message) ==
  IF \E i \in 1..Len(message) : regexMatchesAt(message, i)
    THEN LET i == CHOOSE k \in 1..Len(message) :
                    /\ regexMatchesAt(message, k)
                    /\ \A h \in 1..(k - 1) : ~regexMatchesAt(message, h)
             j == CHOOSE k \in (i + 4)..Len(message) :
                    /\ message[k] = "Q"
                    /\ \A h \in (i + 4)..(k - 1) : message[h] # "Q"
         IN [matched |-> TRUE, group1 |-> SubSeq(message, i + 1, j - 1)]
    ELSE [matched |-> FALSE, group1 |-> <<>>]

\* wrapErrors of the abel-sdk-v2 snapshot on a failure e: the same object,
\* with message replaced by the quoted code and the old text kept
wrapErrorsV2(e) ==
  LET m == regexExec(e.message)
  IN IF m.matched
       THEN [e EXCEPT !.hasOriginalMessage = TRUE,
                      !.originalMessage = e.message,
                      !.message = m.group1]
       ELSE e

\* ---------------------------------------------------------------- decoding
\* the ABI return type's decode of a raw record, and the matching encoding
abiDecode(logValue) == Tail(logValue)
abiEncode(tuple) == <<Len(tuple)>> \o tuple

\* the generated client's XyzFromTuple
tupleParser(tuple) == [unitName |-> tuple[1], decimals |-> tuple[2]]

\* mutant of parseLogsAs: empty logs are skipped
parseLogsAs_dropDeleted(logs) ==
  LET nonEmpty(logValue) == Len(logValue) # 0
      kept == SelectSeq(logs, nonEmpty)
  IN [i \in 1..Len(kept) |-> tupleParser(abiDecode(kept[i]))]

\* mutant of parseLogsAs: an empty log is not marked deleted
parseLogsAs_unmarked(logs) ==
  [i \in 1..Len(logs) |->
     IF Len(logs[i]) # 0
       THEN tupleParser(abiDecode(logs[i]))
       ELSE [deleted |-> FALSE]]

\* parseLogsAs(logs, tupleParser, method): one parsed value per log, an empty
\* log giving { deleted: true }
parseLogsAs(logs) ==
  [i \in 1..Len(logs) |->
     IF Len(logs[i]) # 0
       THEN tupleParser(abiDecode(logs[i]))
       ELSE [deleted |-> TRUE]]

\* { id, ...descriptorValue }
withId(id, descriptorValue) == descriptorValue @@ [id |-> id]

\* ------------------------------------------------------------------ facade
concurrencyDefault == 4

getAssetsLabels_METHOD_MAX == 128
getAssetsMicro_METHOD_MAX == 128
getAssetsMicroLabels_METHOD_MAX == 64
getAssetsTiny_METHOD_MAX == 128
getAssetsTinyLabels_METHOD_MAX == 64
getAssetsText_METHOD_MAX == 128
getAssetsTextLabels_METHOD_MAX == 64
getAssetsSmall_METHOD_MAX == 64
getAssetsFull_METHOD_MAX == 42
addLabelToAssets_METHOD_MAX == 6 + 8 * 15
\* ids per call of the atomic group of addLabelToAssets
addLabelToAssets_BOXES == 8

ViewGetters ==
  {"getAssetsMicro", "getAssetsMicroLabels", "getAssetsTiny", "getAssetsTinyLabels",
   "getAssetsText", "getAssetsTextLabels", "getAssetsSmall", "getAssetsFull"}

\* the bulk reads that batch themselves through batchCall
BatchedGetters == ViewGetters \cup {"getAssetsLabels"}

METHOD_MAX(method) ==
  CASE method = "getAssetsLabels" -> getAssetsLabels_METHOD_MAX
    [] method = "getAssetsMicro" -> getAssetsMicro_METHOD_MAX
    [] method = "getAssetsMicroLabels" -> getAssetsMicroLabels_METHOD_MAX
    [] method = "getAssetsTiny" -> getAssetsTiny_METHOD_MAX
    [] method = "getAssetsTinyLabels" -> getAssetsTinyLabels_METHOD_MAX
    [] method = "getAssetsText" -> getAssetsText_METHOD_MAX
    [] method = "getAssetsTextLabels" -> getAssetsTextLabels_METHOD_MAX
    [] method = "getAssetsSmall" -> getAssetsSmall_METHOD_MAX
    [] method = "getAssetsFull" -> getAssetsFull_METHOD_MAX
    [] method = "addLabelToAssets" -> addLabelToAssets_METHOD_MAX

\* the write methods that submit a single call
SimpleWrites ==
  {"addLabel", "removeLabel", "addOperatorToLabel", "removeOperatorFromLabel",
   "addLabelToAsset", "removeLabelFromAsset"}

\* the single-call reads of operators' and assets' labels
SimpleReads == {"hasOperatorLabel", "getOperatorLabels", "hasAssetLabel", "getAssetLabels"}

ReadMethods ==
  BatchedGetters \cup SimpleReads \cup {"hasLabel", "getLabelDescriptor", "getLabelDescriptors"}

WriteMethods == SimpleWrites \cup {"changeLabel", "addLabelToAssets", "removeLabelV2"}

ReadOnlyError == NewError(<<"read-only client">>)
ConcurrencyTypeError == NewError(<<"concurrency must be an integer from 1 and up">>)
NameUndefinedError == NewError(<<"name must be defined">>)
UrlUndefinedError == NewError(<<"url must be defined">>)

\* mutant of requireWriteClientThrows: the check is missing
requireWriteClientThrows_never(hasWriteAccount) == FALSE

\* requireWriteClient(): whether it throws
requireWriteClientThrows(hasWriteAccount) == ~hasWriteAccount

\* mutant of isNullish: null is let through
isNullish_undefinedOnly(str) == str = "undefined"

\* isNullish(str)
isNullish(str) == str = "undefined" \/ str = "null"

\* ------------------------------------------------------------ the registry
\* the record the ledger holds for an asset, and the logs a simulated bulk
\* read answers with: one raw record per requested id, empty for deleted ones
LedgerTuple(assetId) == <<100 + assetId, assetId % 3>>

SimulateLogs(ids, deleted) ==
  [i \in 1..Len(ids) |->
     IF ids[i] \in deleted THEN <<>> ELSE abiEncode(LedgerTuple(ids[i]))]

\* (arrs) => arrs.map((arr) => Buffer.from(arr).toString())
labelsParser(tuple) == [i \in 1..Len(tuple) |-> <<"label", tuple[i]>>]

parseLabelLogs(logs) ==
  [i \in 1..Len(logs) |->
     IF Len(logs[i]) # 0
       THEN labelsParser(abiDecode(logs[i]))
       ELSE [deleted |-> TRUE]]

\* ---------------------------------------------------------------- requests
\* every list over SmallIds of at most MaxSmallLen ids, duplicates included
SmallRequests == UNION {[1..k -> SmallIds] : k \in 0..MaxSmallLen}

Descending(n) == [i \in 1..n |-> BigBase + n - i]
Ascending(n) == [i \in 1..n |-> BigBase + i]

\* the lengths around the ceiling N, and one of MaxChunks chunks for the
\* smallest ceiling
LongLengths(method) ==
  LET N == METHOD_MAX(method)
  IN {N, N + 1} \cup
     (IF method = "getAssetsFull" THEN {(MaxChunks - 1) * N + 1} ELSE {})

LongRequests(method) ==
  {Descending(n) : n \in LongLengths(method)} \cup
  {Ascending(n) : n \in {METHOD_MAX(method) + 1}}

Requests(method) == SmallRequests \cup LongRequests(method)

\* the requests of addLabelToAssets: every length up to its METHOD_MAX too
AttachRequests ==
  Requests("addLabelToAssets") \cup {Ascending(n) : n \in 4..(addLabelToAssets_METHOD_MAX - 1)}

\* what a simulate may find deleted
DeletedSets(ids) ==
  IF Len(ids) <= MaxSmallLen
    THEN SUBSET SmallIds
    ELSE {{a \in {ids[i] : i \in 1..Len(ids)} : a % 3 = 0}}

\* ---------------------------------------------------------------- failures
LogTexts == {<<"ERR", ":", "x">>, <<"x">>, <<"ERR">>}
LogLists == UNION {[1..k -> {base64Encode(t) : t \in LogTexts}] : k \in 0..2}
EvalStateEntries ==
  {[hasLogs |-> FALSE, logs |-> <<>>]} \cup {[hasLogs |-> TRUE, logs |-> l] : l \in LogLists}
EvalStatesLists == UNION {[1..k -> EvalStateEntries] : k \in 0..2}

CodeInMessage == <<"x", "Q", "ERR", ":", "x", "Q">>

\* the failures a remote call may raise
AllFailures ==
  {TransportError(m, FALSE, <<>>) : m \in Texts(MaxMsgLen)} \cup
  {TransportError(m, TRUE, es) : m \in {<<"x">>, CodeInMessage}, es \in EvalStatesLists}

FewFailures ==
  {TransportError(<<"x">>, FALSE, <<>>),
   TransportError(CodeInMessage, TRUE,
                  <<[hasLogs |-> TRUE, logs |-> <<base64Encode(<<"ERR", ":", "x">>)>>]>>)}

\* the codes the registry rejects a call with
ERR_EXISTS == <<"ERR", ":", "EXISTS">>
ERR_NOEXIST == <<"ERR", ":", "NOEXIST">>
ERR_UNAUTH == <<"ERR", ":", "UNAUTH">>

\* the shapes in which a rejection with a code reaches the client: the code
\* as last log of the eval-state, or only quoted in the message text
DomainFailures(code) ==
  {TransportError(<<"x", "Q">> \o code \o <<"Q">>, TRUE,
                  <<[hasLogs |-> TRUE, logs |-> <<base64Encode(code)>>]>>),
   TransportError(<<"x", "Q">> \o code \o <<"Q">>, FALSE, <<>>)}

LabelIds == {"wo", "pv"}
LabelRequests == UNION {[1..k -> LabelIds] : k \in 0..MaxSmallLen}

\* the label names, the operator accounts and the assets of single-call
\* writes; the writer account of the client is one of the operators
Names == {"world", "other"}
WriterAccount == "admin"
Operators == {WriterAccount, "op2"}
AttachAssets == {1, 2}

\* the arguments of a single-call read
ReadArgs(method) ==
  IF method = "hasOperatorLabel" THEN {<<operator, label>> : operator \in Operators, label \in LabelIds}
  ELSE IF method = "getOperatorLabels" THEN {<<operator>> : operator \in Operators}
  ELSE IF method = "hasAssetLabel" THEN {<<asset, label>> : asset \in AttachAssets, label \in LabelIds}
  ELSE {<<asset>> : asset \in AttachAssets}

\* the label lists get_operator_labels and get_asset_labels may answer
LabelLists == {<<>>, <<"pv">>, <<"wo">>, <<"pv", "wo">>}

\* the descriptors a label lookup may answer
LabelDescriptors ==
  [name : Names, numAssets : 0..Cardinality(SmallIds), numOperators : 0..Cardinality(Operators)]

\* the descriptor tuple a label has in the logs of log_labels
LabelTuple(labelId) == <<labelId, 0>>

SimulateLabelLogs(labelIds, absent) ==
  [i \in 1..Len(labelIds) |->
     IF labelIds[i] \in absent THEN <<>> ELSE abiEncode(LabelTuple(labelIds[i]))]

\* the ledger before any submission: the labels that exist, the labels that
\* were removed and not created again, the funding payments, label creations
\* and label removals committed, the assets that carry a label, the
\* descriptor of every label, the <<operator, label>> grants and the
\* <<asset, label>> attachments
EmptyRegistry ==
  [labels |-> {}, removed |-> {}, payments |-> 0, creations |-> 0, labelled |-> {},
   removals |-> 0, descriptors |-> [l \in {} |-> 0], grants |-> {}, attached |-> {}]

\* the labels an operator holds, the operators of a label, the assets of a
\* label
LabelsOf(reg, operator) == {g[2] : g \in {h \in reg.grants : h[1] = operator}}
OperatorsOf(reg, labelId) == {g[1] : g \in {h \in reg.grants : h[2] = labelId}}
AssetsOf(reg, labelId) == {a[1] : a \in {b \in reg.attached : b[2] = labelId}}

\* mutant of Counter: a counter is never decremented
Counter_neverDecrements(before, gained, lost) == before + Cardinality(gained \ lost)

\* a counter of a descriptor after members were gained and lost
Counter(before, gained, lost) == before + Cardinality(gained \ lost) - Cardinality(lost \ gained)

\* the ledger after the atomic group committed: every transaction of the
\* group takes effect
Commit(reg, group) ==
  LET of(m) == {i \in 1..Len(group) : group[i].method = m}
      created == {group[i].label : i \in of("addLabel")}
      after ==
        [labels   |-> (reg.labels \cup created) \ {group[i].label : i \in of("removeLabel")},
         grants   |-> (reg.grants \cup
                         {<<group[i].arg, group[i].label>> : i \in of("addOperatorToLabel")})
                        \ {<<group[i].arg, group[i].label>> : i \in of("removeOperatorFromLabel")},
         attached |-> (reg.attached
                         \cup {<<group[i].arg, group[i].label>> : i \in of("addLabelToAsset")}
                         \cup UNION {{<<group[i].assets[k], group[i].label>> :
                                        k \in 1..Len(group[i].assets)} :
                                       i \in of("addLabelToAssets")})
                        \ {<<group[i].arg, group[i].label>> : i \in of("removeLabelFromAsset")}]
      \* a creation writes a fresh descriptor; a grant, revocation, attachment
      \* or detachment that took effect moves the counter of its label by one
      descriptor(l) ==
        IF l \in created
          THEN [name |-> group[CHOOSE i \in of("addLabel") : group[i].label = l].arg,
                numAssets |-> 0, numOperators |-> 0]
          ELSE [name |-> reg.descriptors[l].name,
                numAssets |-> Counter(reg.descriptors[l].numAssets,
                                      AssetsOf(after, l), AssetsOf(reg, l)),
                numOperators |-> Counter(reg.descriptors[l].numOperators,
                                         OperatorsOf(after, l), OperatorsOf(reg, l))]
  IN [labels    |-> after.labels,
      removals  |-> reg.removals + Cardinality(of("removeLabel")),
      descriptors |-> [l \in after.labels |-> descriptor(l)],
      grants    |-> after.grants,
      attached  |-> after.attached,
      removed   |-> (reg.removed \cup {group[i].label : i \in of("removeLabel")})
                      \ {group[i].label : i \in of("addLabel")},
      payments  |-> reg.payments + Cardinality(of("payment")),
      creations |-> reg.creations + Cardinality(of("addLabel")),
      labelled  |-> reg.labelled \cup
                      UNION {{group[i].assets[k] : k \in 1..Len(group[i].assets)} :
                               i \in of("addLabelToAssets")}]

\* ------------------------------------------------------------------- state
VARIABLES
  options,      \* the options given to the constructor
  concurrency,  \* the client's #concurrency
  writeAccount, \* whether the client has writeAccount and writeClient
  pc,           \* "idle", "pending", "returned" or "thrown": the caller's view of the call
  op,           \* the method call in progress
  chunked,      \* the chunks handed to pMap
  res,          \* pMap's result array, one slot per chunk
  calls,        \* the calls made on the transport, in the order they were issued
  ret,          \* the value the call returned
  err,          \* the error the call threw
  raised,       \* the transport failure behind err
  completions,  \* the remote calls in the order they completed
  util,         \* a direct call of an exported utility: its arguments and its outcome
  registry,     \* the registry's ledger: what the submissions committed so far
  peer          \* a second method call running on the same client at the same time

vars == <<options, concurrency, writeAccount, pc, op, chunked, res, calls, ret, err, raised,
          completions, util, registry, peer>>

NoOp == [sdk |-> "", method |-> "", ids |-> <<>>, batched |-> FALSE]
NoError == NewError(<<>>)
NotRaised == [has |-> FALSE, e |-> NoError]
Unset == [unset |-> TRUE]
\* the value null
Null == [null |-> TRUE]

\* no second call is running
NoPeer == [pc |-> "idle", method |-> "", ids |-> <<>>, chunked |-> <<>>, res |-> <<>>,
           calls |-> <<>>, ret |-> Unset, err |-> NoError]

\* no utility is being called
NoUtil == [fn |-> "", array |-> <<>>, chunkSize |-> 0, maps |-> <<>>,
           done |-> FALSE, threw |-> FALSE, result |-> <<>>]

ConcurrencyOptions == {[has |-> FALSE, value |-> 0]} \cup {[has |-> TRUE, value |-> c] : c \in 0..MaxConcurrency}

\* new AbelSDK(options)
Init ==
  /\ options \in [concurrency : ConcurrencyOptions, writeAccount : BOOLEAN]
  /\ concurrency = IF options.concurrency.has THEN options.concurrency.value ELSE concurrencyDefault
  /\ writeAccount = options.writeAccount
  /\ pc = "idle"
  /\ op = NoOp
  /\ chunked = <<>>
  /\ res = <<>>
  /\ calls = <<>>
  /\ ret = Unset
  /\ err = NoError
  /\ raised = NotRaised
  /\ completions = <<>>
  /\ util = NoUtil
  /\ registry = EmptyRegistry
  /\ peer = NoPeer

InFlight == {c \in 1..Len(calls) : calls[c].state = "inflight"}

\* encodeUint64(num)
encodeUint64(num) == <<"uint64", num>>
encodeUint64Arr(nums) == [i \in 1..Len(nums) |-> encodeUint64(nums[i])]

\* mutant of addLabelToAssetsGroup: the ids are cut by 8 without the room
\* for the label and operator references of the first call
addLabelToAssetsGroup_noPadding(assetIds, labelId) ==
  LET AssetChunks == chunk(assetIds, addLabelToAssets_BOXES).result
  IN [i \in 1..Len(AssetChunks) |->
        [method |-> "addLabelToAssets",
         assets |-> AssetChunks[i],
         label |-> labelId,
         boxReferences |-> IF i = 1
                             THEN <<labelId, "operatorBox">> \o encodeUint64Arr(AssetChunks[i])
                             ELSE encodeUint64Arr(AssetChunks[i])]]

\* mutant of addLabelToAssetsGroup: only the first call is put in the group
addLabelToAssetsGroup_firstCallOnly(assetIds, labelId) ==
  LET AssetChunks == chunk(<<0, 0>> \o assetIds, addLabelToAssets_BOXES).result
      ids == SubSeq(AssetChunks[1], 3, Len(AssetChunks[1]))
  IN <<[method |-> "addLabelToAssets",
        assets |-> ids,
        label |-> labelId,
        boxReferences |-> <<labelId, "operatorBox">> \o encodeUint64Arr(ids)]>>

\* the atomic group addLabelToAssets builds for at most METHOD_MAX asset ids
addLabelToAssetsGroup(assetIds, labelId) ==
  LET AssetChunks == chunk(<<0, 0>> \o assetIds, addLabelToAssets_BOXES).result
  IN [i \in 1..Len(AssetChunks) |->
        LET ids == IF i = 1 THEN SubSeq(AssetChunks[i], 3, Len(AssetChunks[i])) ELSE AssetChunks[i]
        IN [method |-> "addLabelToAssets",
            assets |-> ids,
            label |-> labelId,
            boxReferences |-> IF i = 1
                                THEN <<labelId, "operatorBox">> \o encodeUint64Arr(ids)
                                ELSE encodeUint64Arr(ids)]]

\* one call on the transport: a simulate through readClient or a send through writeClient
RemoteCall(kind, method, ids, task, group) ==
  [kind |-> kind, client |-> IF kind = "send" THEN "writeClient" ELSE "readClient",
   method |-> method, ids |-> ids, task |-> task,
   state |-> "inflight", group |-> group, answer |-> <<>>]

\* mutant of UnbatchedCall: every call is submitted through the write client
UnbatchedCall_submits(method, ids, task) ==
  RemoteCall("send", method, ids, task,
             IF method = "addLabelToAssets" THEN addLabelToAssetsGroup(ids, "wo") ELSE <<>>)

\* mutant of UnbatchedCall: the write is simulated and not sent
UnbatchedCall_simulated(method, ids, task) ==
  RemoteCall("simulate", method, ids, task,
             IF method = "addLabelToAssets" THEN addLabelToAssetsGroup(ids, "wo") ELSE <<>>)

\* the remote call the unbatched path of a method makes for ids; task is the
\* chunk it serves, 0 outside pMap
UnbatchedCall(method, ids, task) ==
  IF method = "addLabelToAssets"
    THEN RemoteCall("send", method, ids, task, addLabelToAssetsGroup(ids, "wo"))
    ELSE RemoteCall("simulate", method, ids, task, <<>>)

\* mutant of pMapStart: every chunk is started at once
pMapStart_unbounded(method, chunks) ==
  [c \in 1..Len(chunks) |-> UnbatchedCall(method, chunks[c], c)]

\* mutant of pMapStart: twice the limit is started
pMapStart_doubled(method, chunks) ==
  [c \in 1..Min(2 * concurrency, Len(chunks)) |-> UnbatchedCall(method, chunks[c], c)]

\* pMap(chunks, mapper, {concurrency}) at its call: the mappers it starts
pMapStart(method, chunks) ==
  [c \in 1..Min(concurrency, Len(chunks)) |-> UnbatchedCall(method, chunks[c], c)]

\* pMap rejects a concurrency that is not an integer from 1 up
pMapRejectsConcurrency == concurrency < 1

\* batchCall(method, [assetIDs], methodMax) and the batched branch of
\* addLabelToAssets, up to the first suspension
BatchStart(method, ids) ==
  LET chunks == chunk(ids, METHOD_MAX(method)).result
  IN /\ chunked' = chunks
     /\ res' = [c \in 1..Len(chunks) |-> Unset]
     /\ IF pMapRejectsConcurrency
          THEN /\ pc' = "thrown"
               /\ err' = ConcurrencyTypeError
               /\ calls' = calls
          ELSE /\ pc' = "pending"
               /\ err' = err
               /\ calls' = calls \o pMapStart(method, chunks)

UnbatchedStart(method, ids) ==
  /\ chunked' = chunked
  /\ res' = res
  /\ pc' = "pending"
  /\ err' = err
  /\ calls' = Append(calls, UnbatchedCall(method, ids, 0))

\* mutant of exceedsMethodMax: one identifier above METHOD_MAX is not batched
exceedsMethodMax_offByOne(method, assetIds) == Len(assetIds) > METHOD_MAX(method) + 1

\* mutant of exceedsMethodMax: a request of exactly METHOD_MAX ids is batched
exceedsMethodMax_inclusive(method, assetIds) == Len(assetIds) >= METHOD_MAX(method)

\* assetIds.length > METHOD_MAX
exceedsMethodMax(method, assetIds) == Len(assetIds) > METHOD_MAX(method)

\* getAssetsLabels and the eight view getters
CallBulkRead(method, assetIds) ==
  /\ pc = "idle"
  /\ op' = [sdk |-> "abel-sdk", method |-> method, ids |-> assetIds,
            batched |-> exceedsMethodMax(method, assetIds)]
  /\ IF exceedsMethodMax(method, assetIds)
       THEN BatchStart(method, assetIds)
       ELSE UnbatchedStart(method, assetIds)
  /\ UNCHANGED <<peer, registry, util, options, concurrency, writeAccount, ret, raised, completions>>

\* getLabelDescriptor(labelId)
getLabelDescriptor(labelId) ==
  /\ pc = "idle"
  /\ op' = [sdk |-> "abel-sdk", method |-> "getLabelDescriptor", ids |-> <<labelId>>, batched |-> FALSE]
  /\ UnbatchedStart("getLabelDescriptor", <<labelId>>)
  /\ UNCHANGED <<peer, registry, util, options, concurrency, writeAccount, ret, raised, completions>>

\* getLabelDescriptors(labelIds): never batched
getLabelDescriptors(labelIds) ==
  /\ pc = "idle"
  /\ op' = [sdk |-> "abel-sdk", method |-> "getLabelDescriptors", ids |-> labelIds, batched |-> FALSE]
  /\ UnbatchedStart("getLabelDescriptors", labelIds)
  /\ UNCHANGED <<peer, registry, util, options, concurrency, writeAccount, ret, raised, completions>>

\* hasLabel(labelId)
hasLabel(labelId) ==
  /\ pc = "idle"
  /\ op' = [sdk |-> "abel-sdk", method |-> "hasLabel", ids |-> <<labelId>>, batched |-> FALSE]
  /\ UnbatchedStart("hasLabel", <<labelId>>)
  /\ UNCHANGED <<peer, registry, util, options, concurrency, writeAccount, ret, raised, completions>>

\* hasOperatorLabel(operator, label), getOperatorLabels(operator),
\* hasAssetLabel(assetId, label), getAssetLabels(assetId)
CallSimpleRead(method, args) ==
  /\ pc = "idle"
  /\ op' = [sdk |-> "abel-sdk", method |-> method, ids |-> args, batched |-> FALSE]
  /\ UnbatchedStart(method, args)
  /\ UNCHANGED <<peer, registry, util, options, concurrency, writeAccount, ret, raised, completions>>

\* mutant of WriteGroup: addLabel submits the label creation without the payment
WriteGroup_unfunded(method, labelId, arg) ==
  <<[method |-> method, label |-> labelId, arg |-> arg]>>

\* the group a single-call write method submits
WriteGroup(method, labelId, arg) ==
  IF method = "addLabel"
    THEN <<[method |-> "payment", label |-> "", arg |-> ""],
           [method |-> "addLabel", label |-> labelId, arg |-> arg]>>
    ELSE <<[method |-> method, label |-> labelId, arg |-> arg]>>

\* a write method on a client that may be read-only: requireWriteClient()
\* first, then the submission
WriteStart(method, ids, group) ==
  /\ chunked' = chunked
  /\ res' = res
  /\ IF requireWriteClientThrows(writeAccount)
       THEN /\ pc' = "thrown"
            /\ err' = ReadOnlyError
            /\ calls' = calls
       ELSE /\ pc' = "pending"
            /\ err' = err
            /\ calls' = Append(calls, RemoteCall("send", method, ids, 0, group))

\* the second argument of a single-call write: the name of addLabel, the
\* operator of addOperatorToLabel and removeOperatorFromLabel, the asset of
\* addLabelToAsset and removeLabelFromAsset
WriteArgs(method) ==
  IF method = "addLabel" THEN Names
  ELSE IF method \in {"addOperatorToLabel", "removeOperatorFromLabel"} THEN Operators
  ELSE IF method \in {"addLabelToAsset", "removeLabelFromAsset"} THEN AttachAssets
  ELSE {""}

\* addLabel, removeLabel, addOperatorToLabel, removeOperatorFromLabel,
\* addLabelToAsset, removeLabelFromAsset
CallWrite(method, labelId, arg) ==
  /\ pc = "idle"
  /\ op' = [sdk |-> "abel-sdk", method |-> method, ids |-> <<labelId, arg>>, batched |-> FALSE]
  /\ WriteStart(method, <<labelId, arg>>, WriteGroup(method, labelId, arg))
  /\ UNCHANGED <<peer, registry, util, options, concurrency, writeAccount, ret, raised, completions>>

\* changeLabel(labelId, name, url)
changeLabel(name, url) ==
  /\ pc = "idle"
  /\ op' = [sdk |-> "abel-sdk", method |-> "changeLabel", ids |-> <<name, url>>, batched |-> FALSE]
  /\ IF requireWriteClientThrows(writeAccount) \/ ~(isNullish(name) \/ isNullish(url))
       THEN WriteStart("changeLabel", <<>>, WriteGroup("changeLabel", "wo", name))
       ELSE /\ pc' = "thrown"
            /\ err' = IF isNullish(name) THEN NameUndefinedError ELSE UrlUndefinedError
            /\ UNCHANGED <<calls, chunked, res>>
  /\ UNCHANGED <<peer, registry, util, options, concurrency, writeAccount, ret, raised, completions>>

\* addLabelToAssets(assetIds, labelId)
addLabelToAssets(assetIds) ==
  /\ pc = "idle"
  /\ op' = [sdk |-> "abel-sdk", method |-> "addLabelToAssets", ids |-> assetIds,
            batched |-> ~requireWriteClientThrows(writeAccount)
                        /\ exceedsMethodMax("addLabelToAssets", assetIds)]
  /\ IF requireWriteClientThrows(writeAccount)
       THEN /\ pc' = "thrown"
            /\ err' = ReadOnlyError
            /\ UNCHANGED <<calls, chunked, res>>
       ELSE IF exceedsMethodMax("addLabelToAssets", assetIds)
              THEN BatchStart("addLabelToAssets", assetIds)
              ELSE UnbatchedStart("addLabelToAssets", assetIds)
  /\ UNCHANGED <<peer, registry, util, options, concurrency, writeAccount, ret, raised, completions>>

\* removeLabel(labelId) of the abel-sdk-v2 snapshot
removeLabelV2 ==
  /\ pc = "idle"
  /\ op' = [sdk |-> "abel-sdk-v2", method |-> "removeLabelV2", ids |-> <<>>, batched |-> FALSE]
  /\ WriteStart("removeLabelV2", <<>>, WriteGroup("removeLabel", "wo", ""))
  /\ UNCHANGED <<peer, registry, util, options, concurrency, writeAccount, ret, raised, completions>>

\* ----------------------------------------------------------- the transport
\* what a remote call may answer when it succeeds
Answers(call) ==
  IF call.method \in BatchedGetters
    THEN {SimulateLogs(call.ids, d) : d \in DeletedSets(call.ids)}
  ELSE IF call.method = "getLabelDescriptors"
    THEN {SimulateLabelLogs(call.ids, a) : a \in SUBSET LabelIds}
  ELSE IF call.method \in {"hasLabel", "hasOperatorLabel", "hasAssetLabel"}
    THEN {<<TRUE>>, <<FALSE>>}
  ELSE IF call.method \in {"getOperatorLabels", "getAssetLabels"}
    THEN {<<labels>> : labels \in LabelLists}
  ELSE IF call.method = "getLabelDescriptor"
    THEN {<<descriptor>> : descriptor \in LabelDescriptors}
  ELSE {call.group}

\* the failures a remote call may raise; every message text is tried on the
\* client with the default concurrency, which an unbatched call does not use
Failures(call) ==
  IF call.method \in {"hasLabel", "removeLabelV2"}
    THEN IF options.concurrency.has THEN FewFailures ELSE AllFailures
  ELSE IF Len(chunked) > 2 THEN {TransportError(<<"x">>, FALSE, <<>>)}
  ELSE IF call.task = 0 /\ call.method \in SimpleWrites \cup {"getLabelDescriptor"}
    THEN FewFailures \cup DomainFailures(ERR_EXISTS) \cup DomainFailures(ERR_NOEXIST)
           \cup DomainFailures(ERR_UNAUTH)
  ELSE FewFailures

\* the rest of a method's unbatched path, after its remote call answered
unbatchedResult(method, ids, answer) ==
  IF method \in ViewGetters \/ method = "getLabelDescriptors"
    THEN LET values == parseLogsAs(answer)
         IN MapFromPairs([idx \in 1..Len(values) |->
                            <<ids[idx], withId(ids[idx], values[idx])>>], 1, Len(values))
  ELSE IF method = "getAssetsLabels"
    THEN LET labelValues == parseLabelLogs(answer)
         IN MapFromPairs([idx \in 1..Len(ids) |-> <<ids[idx], labelValues[idx]>>], 1, Len(ids))
  ELSE IF method \in {"hasLabel", "hasOperatorLabel", "hasAssetLabel"}
    THEN [bool |-> answer[1]]
  ELSE IF method \in {"getOperatorLabels", "getAssetLabels"}
    THEN [array |-> answer[1]]
  ELSE IF method = "getLabelDescriptor"
    THEN withId(ids[1], answer[1])
  ELSE [confirmed |-> answer]

\* mutant of batchResult: only maps are merged, anything else gives undefined
batchResult_undefinedForWrites(method, results) ==
  IF method = "addLabelToAssets" THEN [undefined |-> TRUE] ELSE mergeMapsArr(results)

\* what the batched operation returns once pMap resolved with results
batchResult(method, results) ==
  IF method = "addLabelToAssets" THEN [array |-> results] ELSE mergeMapsArr(results)

\* the error a method throws when its remote call raised e
normalize(sdk, method, e) ==
  IF sdk = "abel-sdk-v2" THEN wrapErrorsV2(e)
  ELSE IF method = "removeOperatorFromLabel" THEN e
  ELSE wrapErrors(e)

\* mutant of unbatchedFailure: the failure of the call is swallowed and an
\* empty result returned
unbatchedFailure_swallowed(sdk, method, e) ==
  [rejects |-> FALSE, error |-> normalize(sdk, method, e), value |-> EmptyMap]

\* the outcome of a method's unbatched path when its remote call raised e:
\* the awaited wrapErrors throws, so the method's promise rejects; only
\* getLabelDescriptor catches, and returns null for the message ERR:NOEXIST
unbatchedFailure(sdk, method, e) ==
  IF method = "getLabelDescriptor" /\ normalize(sdk, method, e).message = ERR_NOEXIST
    THEN [rejects |-> FALSE, error |-> normalize(sdk, method, e), value |-> Null]
    ELSE [rejects |-> TRUE, error |-> normalize(sdk, method, e), value |-> EmptyMap]

\* mutant of resultIndex: the results are stored in completion order
resultIndex_completionOrder(c) == Len(completions) + 1

\* the slot of pMap's result array the mapper of call c fills
resultIndex(c) == calls[c].task

\* mutant of Resolved: pMap goes on with the next chunk after a failure
Resolved_continuesAfterFailure(c, value, done) ==
  IF calls[c].task = 0
    THEN /\ calls' = done
         /\ pc' = "returned"
         /\ ret' = value
         /\ res' = res
    ELSE LET results == [res EXCEPT ![resultIndex(c)] = value]
             next == Len(calls) + 1
         IN /\ res' = results
            /\ IF next <= Len(chunked)
                 THEN /\ calls' = Append(done, UnbatchedCall(op.method, chunked[next], next))
                      /\ UNCHANGED <<pc, ret>>
                 ELSE calls' = done /\ UNCHANGED <<pc, ret>>

\* a method's promise settled without rejecting: a direct call returns value;
\* for a chunk call pMap fills the result slot, then starts the next chunk or,
\* when nothing is left, resolves and the batched operation returns
Resolved(c, value, done) ==
  IF calls[c].task = 0
    THEN /\ calls' = done
         /\ pc' = "returned"
         /\ ret' = value
         /\ res' = res
    ELSE LET results == [res EXCEPT ![resultIndex(c)] = value]
             next == Len(calls) + 1
         IN /\ res' = results
            /\ IF pc = "thrown"
                 THEN calls' = done /\ UNCHANGED <<pc, ret>>
               ELSE IF next <= Len(chunked)
                 THEN /\ calls' = Append(done, UnbatchedCall(op.method, chunked[next], next))
                      /\ UNCHANGED <<pc, ret>>
               ELSE IF \A k \in 1..Len(done) : done[k].state # "inflight"
                 THEN /\ calls' = done
                      /\ pc' = "returned"
                      /\ ret' = batchResult(op.method, results)
               ELSE calls' = done /\ UNCHANGED <<pc, ret>>

\* a remote call succeeds
TransportOk(c, answer) ==
  /\ c \in InFlight
  /\ answer \in Answers(calls[c])
  /\ Resolved(c, unbatchedResult(calls[c].method, calls[c].ids, answer),
              [calls EXCEPT ![c].state = "ok", ![c].answer = answer])
  /\ completions' = Append(completions, c)
  /\ registry' = IF calls[c].kind = "send" THEN Commit(registry, calls[c].group) ELSE registry
  /\ UNCHANGED <<peer, util, options, concurrency, writeAccount, op, chunked, err, raised>>

\* a remote call fails with e: the method normalizes it and throws; pMap
\* rejects with the first error and starts no further mapper
TransportFail(c, e) ==
  /\ c \in InFlight
  /\ e \in Failures(calls[c])
  /\ completions' = Append(completions, c)
  /\ LET outcome == unbatchedFailure(op.sdk, calls[c].method, e)
         done == [calls EXCEPT ![c].state = "failed"]
     IN IF outcome.rejects
          THEN /\ calls' = done
               /\ IF pc = "pending"
                    THEN /\ pc' = "thrown"
                         /\ err' = outcome.error
                         /\ raised' = [has |-> TRUE, e |-> e]
                    ELSE UNCHANGED <<pc, err, raised>>
               /\ UNCHANGED <<res, ret>>
          ELSE /\ Resolved(c, outcome.value, done)
               /\ UNCHANGED <<err, raised>>
  /\ UNCHANGED <<peer, registry, util, options, concurrency, writeAccount, op, chunked>>

Next ==
  \/ \E method \in BatchedGetters : \E assetIds \in Requests(method) : CallBulkRead(method, assetIds)
  \/ \E labelId \in LabelIds : getLabelDescriptor(labelId)
  \/ \E labelIds \in LabelRequests : getLabelDescriptors(labelIds)
  \/ \E labelId \in LabelIds : hasLabel(labelId)
  \/ \E method \in SimpleReads : \E args \in ReadArgs(method) : CallSimpleRead(method, args)
  \/ \E method \in SimpleWrites : \E labelId \in LabelIds : \E arg \in WriteArgs(method) :
       CallWrite(method, labelId, arg)
  \/ \E name, url \in {"undefined", "null", "text"} : changeLabel(name, url)
  \/ \E assetIds \in AttachRequests : addLabelToAssets(assetIds)
  \/ removeLabelV2
  \/ \E c \in InFlight : \E answer \in Answers(calls[c]) : TransportOk(c, answer)
  \/ \E c \in InFlight : \E e \in Failures(calls[c]) : TransportFail(c, e)

Spec == Init /\ [][Next]_vars

\* ------------------------------------------------- the utilities on their own
\* the arrays and chunk sizes chunk is called with
UtilArrays == UNION {[1..k -> SmallIds] : k \in 0..MaxArrayLen}
UtilChunkSizes == (0 - 2)..(MaxArrayLen + 1)

\* the maps mergeMapsArr is called with: up to two entries over the keys x, y
UtilPairs == {<<k, v>> : k \in {"x", "y"}, v \in {1, 2}}
UtilMaps == {MapFromPairs(p, 1, Len(p)) : p \in UNION {[1..k -> UtilPairs] : k \in 0..2}}
UtilMapLists == UNION {[1..k -> UtilMaps] : k \in 0..MaxMaps}

UtilInit ==
  /\ options = [concurrency |-> [has |-> FALSE, value |-> 0], writeAccount |-> FALSE]
  /\ concurrency = concurrencyDefault
  /\ writeAccount = FALSE
  /\ pc = "idle"
  /\ op = NoOp
  /\ chunked = <<>>
  /\ res = <<>>
  /\ calls = <<>>
  /\ ret = Unset
  /\ err = NoError
  /\ raised = NotRaised
  /\ completions = <<>>
  /\ registry = EmptyRegistry
  /\ peer = NoPeer
  /\ util \in {[NoUtil EXCEPT !.fn = "chunk", !.array = a, !.chunkSize = n] :
                  a \in UtilArrays, n \in UtilChunkSizes}
             \cup {[NoUtil EXCEPT !.fn = "mergeMapsArr", !.maps = ms] : ms \in UtilMapLists}

\* chunk(array, chunkSize) called directly
CallChunk ==
  /\ util.fn = "chunk" /\ ~util.done
  /\ util' = [util EXCEPT !.done = TRUE,
                           !.threw = chunk(util.array, util.chunkSize).threw,
                           !.result = chunk(util.array, util.chunkSize).result]
  /\ UNCHANGED <<options, concurrency, writeAccount, pc, op, chunked, res, calls, ret, err,
                 raised, completions, registry, peer>>

\* mergeMapsArr(maps) called directly
CallMergeMapsArr ==
  /\ util.fn = "mergeMapsArr" /\ ~util.done
  /\ util' = [util EXCEPT !.done = TRUE, !.result = mergeMapsArr(util.maps)]
  /\ UNCHANGED <<options, concurrency, writeAccount, pc, op, chunked, res, calls, ret, err,
                 raised, completions, registry, peer>>

UtilNext == CallChunk \/ CallMergeMapsArr

UtilSpec == UtilInit /\ [][UtilNext]_vars

\* ------------------------------------------ two calls on one client at once
PeerInFlight == {c \in 1..Len(peer.calls) : peer.calls[c].state = "inflight"}

\* a bulk getter called while another call of the client is in progress: it
\* runs the same code with the same #concurrency and its own pMap
PeerCallBulkRead(method, assetIds) ==
  /\ peer.pc = "idle"
  /\ LET chunks == chunk(assetIds, METHOD_MAX(method)).result
         started == [NoPeer EXCEPT !.method = method, !.ids = assetIds]
     IN peer' =
          IF ~exceedsMethodMax(method, assetIds)
            THEN [started EXCEPT !.pc = "pending",
                                 !.calls = <<UnbatchedCall(method, assetIds, 0)>>]
          ELSE IF pMapRejectsConcurrency
            THEN [started EXCEPT !.pc = "thrown", !.err = ConcurrencyTypeError,
                                 !.chunked = chunks,
                                 !.res = [c \in 1..Len(chunks) |-> Unset]]
          ELSE [started EXCEPT !.pc = "pending",
                               !.chunked = chunks,
                               !.res = [c \in 1..Len(chunks) |-> Unset],
                               !.calls = pMapStart(method, chunks)]
  /\ UNCHANGED <<options, concurrency, writeAccount, pc, op, chunked, res, calls, ret, err,
                 raised, completions, util, registry>>

\* a remote call of the second call succeeds
PeerTransportOk(c, answer) ==
  /\ c \in PeerInFlight
  /\ answer \in Answers(peer.calls[c])
  /\ LET value == unbatchedResult(peer.calls[c].method, peer.calls[c].ids, answer)
         done == [peer.calls EXCEPT ![c].state = "ok", ![c].answer = answer]
         results == [peer.res EXCEPT ![done[c].task] = value]
         next == Len(peer.calls) + 1
     IN peer' =
          IF done[c].task = 0
            THEN [peer EXCEPT !.calls = done, !.pc = "returned", !.ret = value]
          ELSE IF peer.pc = "thrown"
            THEN [peer EXCEPT !.calls = done, !.res = results]
          ELSE IF next <= Len(peer.chunked)
            THEN [peer EXCEPT !.calls = Append(done, UnbatchedCall(peer.method,
                                                                   peer.chunked[next], next)),
                              !.res = results]
          ELSE IF \A k \in 1..Len(done) : done[k].state # "inflight"
            THEN [peer EXCEPT !.calls = done, !.res = results, !.pc = "returned",
                              !.ret = batchResult(peer.method, results)]
          ELSE [peer EXCEPT !.calls = done, !.res = results]
  /\ UNCHANGED <<options, concurrency, writeAccount, pc, op, chunked, res, calls, ret, err,
                 raised, completions, util, registry>>

\* a remote call of the second call fails with e
PeerTransportFail(c, e) ==
  /\ c \in PeerInFlight
  /\ LET done == [peer.calls EXCEPT ![c].state = "failed"]
     IN peer' = IF peer.pc = "pending"
                  THEN [peer EXCEPT !.calls = done, !.pc = "thrown", !.err = wrapErrors(e)]
                  ELSE [peer EXCEPT !.calls = done]
  /\ UNCHANGED <<options, concurrency, writeAccount, pc, op, chunked, res, calls, ret, err,
                 raised, completions, util, registry>>

\* the requests of the two calls: one identifier more than 1, 2, ... full chunks
ConcurrentRequests(method) ==
  {Descending(k * METHOD_MAX(method) + 1) : k \in 1..(MaxPeerChunks - 1)}

\* the concurrency options of the two concurrent calls: the default, the
\* rejected 0, and the limits 1 and 2
ConcurrentOptions == {o \in ConcurrencyOptions : o.value <= 2}

ConcurrentInit ==
  /\ options \in [concurrency : ConcurrentOptions, writeAccount : {FALSE}]
  /\ concurrency = IF options.concurrency.has THEN options.concurrency.value ELSE concurrencyDefault
  /\ writeAccount = options.writeAccount
  /\ pc = "idle"
  /\ op = NoOp
  /\ chunked = <<>>
  /\ res = <<>>
  /\ calls = <<>>
  /\ ret = Unset
  /\ err = NoError
  /\ raised = NotRaised
  /\ completions = <<>>
  /\ util = NoUtil
  /\ registry = EmptyRegistry
  /\ peer = NoPeer

ConcurrentNext ==
  \/ \E assetIds \in ConcurrentRequests("getAssetsFull") : CallBulkRead("getAssetsFull", assetIds)
  \/ \E assetIds \in ConcurrentRequests("getAssetsFull") \cup {<<1, 2>>} :
       PeerCallBulkRead("getAssetsFull", assetIds)
  \/ \E c \in InFlight : \E answer \in Answers(calls[c]) : TransportOk(c, answer)
  \/ \E c \in InFlight : TransportFail(c, TransportError(<<"x">>, FALSE, <<>>))
  \/ \E c \in PeerInFlight : \E answer \in Answers(peer.calls[c]) : PeerTransportOk(c, answer)
  \/ \E c \in PeerInFlight : PeerTransportFail(c, TransportError(<<"x">>, FALSE, <<>>))

ConcurrentSpec == ConcurrentInit /\ [][ConcurrentNext]_vars

\* ------------------------------------- a client in front of a live registry
\* mutant of RegistryRejection: a grant is not checked against the grants held
RegistryRejection_regrants(call) ==
  IF call.method = "addLabel"
    THEN IF call.ids[1] \in registry.labels THEN ERR_EXISTS ELSE <<>>
  ELSE IF call.method \in {"removeLabel", "getLabelDescriptor", "addOperatorToLabel",
                           "removeOperatorFromLabel"}
    THEN IF call.ids[1] \notin registry.labels THEN ERR_NOEXIST ELSE <<>>
  ELSE IF call.method \in {"addLabelToAsset", "removeLabelFromAsset"}
    THEN IF call.ids[1] \notin registry.labels THEN ERR_NOEXIST
         ELSE IF <<WriterAccount, call.ids[1]>> \notin registry.grants THEN ERR_UNAUTH
         ELSE <<>>
  ELSE <<>>

\* mutant of RegistryRejection: a label id that exists can be created again
RegistryRejection_recreates(call) ==
  IF call.method \in {"removeLabel", "getLabelDescriptor"} /\ call.ids[1] \notin registry.labels
    THEN ERR_NOEXIST
  ELSE <<>>

\* the code the registry rejects a call with in its current state, <<>> when
\* it accepts the call
RegistryRejection(call) ==
  IF call.method = "addLabel"
    THEN IF call.ids[1] \in registry.labels THEN ERR_EXISTS ELSE <<>>
  ELSE IF call.method \in {"removeLabel", "getLabelDescriptor"}
    THEN IF call.ids[1] \notin registry.labels THEN ERR_NOEXIST ELSE <<>>
  ELSE IF call.method = "addOperatorToLabel"
    THEN IF call.ids[1] \notin registry.labels THEN ERR_NOEXIST
         ELSE IF <<call.ids[2], call.ids[1]>> \in registry.grants THEN ERR_EXISTS
         ELSE <<>>
  ELSE IF call.method = "removeOperatorFromLabel"
    THEN IF call.ids[1] \notin registry.labels THEN ERR_NOEXIST
         ELSE IF <<call.ids[2], call.ids[1]>> \notin registry.grants THEN ERR_NOEXIST
         ELSE <<>>
  ELSE IF call.method = "addLabelToAsset"
    THEN IF call.ids[1] \notin registry.labels THEN ERR_NOEXIST
         ELSE IF <<WriterAccount, call.ids[1]>> \notin registry.grants THEN ERR_UNAUTH
         ELSE IF <<call.ids[2], call.ids[1]>> \in registry.attached THEN ERR_EXISTS
         ELSE <<>>
  ELSE IF call.method = "removeLabelFromAsset"
    THEN IF call.ids[1] \notin registry.labels THEN ERR_NOEXIST
         ELSE IF <<WriterAccount, call.ids[1]>> \notin registry.grants THEN ERR_UNAUTH
         ELSE IF <<call.ids[2], call.ids[1]>> \notin registry.attached THEN ERR_NOEXIST
         ELSE <<>>
  ELSE <<>>

\* what the registry answers to a call it accepts
RegistryAnswer(call) ==
  IF call.method = "hasLabel" THEN <<call.ids[1] \in registry.labels>>
  ELSE IF call.method = "getLabelDescriptor" THEN <<registry.descriptors[call.ids[1]]>>
  ELSE IF call.method = "getLabelDescriptors"
    THEN SimulateLabelLogs(call.ids, LabelIds \ registry.labels)
  ELSE call.group

\* a write client with the default concurrency and an empty registry
RegistryInit ==
  /\ options = [concurrency |-> [has |-> FALSE, value |-> 0], writeAccount |-> TRUE]
  /\ concurrency = concurrencyDefault
  /\ writeAccount = TRUE
  /\ pc = "idle"
  /\ op = NoOp
  /\ chunked = <<>>
  /\ res = <<>>
  /\ calls = <<>>
  /\ ret = Unset
  /\ err = NoError
  /\ raised = NotRaised
  /\ completions = <<>>
  /\ util = NoUtil
  /\ registry = EmptyRegistry
  /\ peer = NoPeer

\* the registry accepts a call
RegistryOk(c) ==
  /\ c \in InFlight
  /\ RegistryRejection(calls[c]) = <<>>
  /\ TransportOk(c, RegistryAnswer(calls[c]))

\* the registry rejects a call with a code
RegistryFail(c, e) ==
  /\ c \in InFlight
  /\ RegistryRejection(calls[c]) # <<>>
  /\ e \in DomainFailures(RegistryRejection(calls[c]))
  /\ TransportFail(c, e)

\* the caller's await of the method call is over; the next call can be made
Settled ==
  /\ pc \in {"returned", "thrown"}
  /\ InFlight = {}
  /\ pc' = "idle"
  /\ op' = NoOp
  /\ chunked' = <<>>
  /\ res' = <<>>
  /\ calls' = <<>>
  /\ ret' = Unset
  /\ err' = NoError
  /\ raised' = NotRaised
  /\ completions' = <<>>
  /\ UNCHANGED <<options, concurrency, writeAccount, util, registry, peer>>

RegistryNext ==
  \/ \E labelId \in LabelIds : \E name \in Names :
       registry.creations < MaxCreations /\ CallWrite("addLabel", labelId, name)
  \/ \E labelId \in LabelIds : CallWrite("removeLabel", labelId, "")
  \/ CallWrite("addOperatorToLabel", "wo", WriterAccount)
  \/ \E labelId \in LabelIds : getLabelDescriptor(labelId)
  \/ \E labelId \in LabelIds : hasLabel(labelId)
  \/ \E labelIds \in LabelRequests : getLabelDescriptors(labelIds)
  \/ \E assetIds \in SmallRequests : addLabelToAssets(assetIds)
  \/ \E c \in InFlight : RegistryOk(c)
  \/ \E c \in InFlight : \E e \in Failures(calls[c]) : RegistryFail(c, e)
  \/ Settled

RegistrySpec == RegistryInit /\ [][RegistryNext]_vars

\* --------------------------- labels, operators and assets on a live registry
LabellingNext ==
  \/ \E labelId \in LabelIds :
       registry.creations < MaxCreations /\ CallWrite("addLabel", labelId, "world")
  \/ \E method \in {"addOperatorToLabel", "removeOperatorFromLabel"} :
       \E labelId \in LabelIds : \E operator \in Operators : CallWrite(method, labelId, operator)
  \/ \E method \in {"addLabelToAsset", "removeLabelFromAsset"} :
       \E labelId \in LabelIds : \E asset \in AttachAssets : CallWrite(method, labelId, asset)
  \/ \E labelId \in LabelIds : getLabelDescriptor(labelId)
  \/ \E c \in InFlight : RegistryOk(c)
  \/ \E c \in InFlight : \E e \in Failures(calls[c]) : RegistryFail(c, e)
  \/ Settled

LabellingSpec == RegistryInit /\ [][LabellingNext]_vars

\* ------------------------------------------------ a client that only reads
\* a registry with a label, its operator and an asset carrying it
SeededRegistry ==
  Commit(Commit(Commit(EmptyRegistry, WriteGroup("addLabel", "wo", "world")),
                WriteGroup("addOperatorToLabel", "wo", WriterAccount)),
         WriteGroup("addLabelToAsset", "wo", 1))

\* a client with or without a write account in front of either registry
ReadInit ==
  /\ options \in [concurrency : {[has |-> FALSE, value |-> 0]}, writeAccount : BOOLEAN]
  /\ concurrency = concurrencyDefault
  /\ writeAccount = options.writeAccount
  /\ pc = "idle"
  /\ op = NoOp
  /\ chunked = <<>>
  /\ res = <<>>
  /\ calls = <<>>
  /\ ret = Unset
  /\ err = NoError
  /\ raised = NotRaised
  /\ completions = <<>>
  /\ util = NoUtil
  /\ registry \in {EmptyRegistry, SeededRegistry}
  /\ peer = NoPeer

ReadNext ==
  \/ \E method \in BatchedGetters : \E assetIds \in Requests(method) : CallBulkRead(method, assetIds)
  \/ \E labelId \in LabelIds : getLabelDescriptor(labelId)
  \/ \E labelIds \in LabelRequests : getLabelDescriptors(labelIds)
  \/ \E labelId \in LabelIds : hasLabel(labelId)
  \/ \E method \in SimpleReads : \E args \in ReadArgs(method) : CallSimpleRead(method, args)
  \/ \E c \in InFlight : \E answer \in Answers(calls[c]) : TransportOk(c, answer)
  \/ \E c \in InFlight : \E e \in Failures(calls[c]) : TransportFail(c, e)
  \/ Settled

ReadSpec == ReadInit /\ [][ReadNext]_vars

\* ================================================================== claims
Range(seq) == {seq[i] : i \in 1..Len(seq)}
Distinct(seq) == Cardinality(Range(seq)) = Len(seq)
CeilDiv(n, d) == (n + d - 1) \div d
IsDeletedEntry(v) == "deleted" \in DOMAIN v

\* the limit the caller asked for: the constructor's concurrency, or 4
ConcurrencyLimit == IF options.concurrency.has THEN options.concurrency.value ELSE 4

\* C1: a batched bulk read that returns has its keys in the order of the
\* requested identifiers, whatever the limit and the completion order of the
\* chunk calls
C1_MergedOrderIsRequestOrder ==
  (pc = "returned" /\ op.batched /\ op.method \in BatchedGetters) => ret.order = op.ids

\* C1 witness: chunk 2 answered before chunk 1, the request is not sorted,
\* and the returned keys are in request order
C1_Witness ==
  /\ pc = "returned" /\ op.batched /\ op.method \in BatchedGetters
  /\ completions[1] = 2
  /\ op.ids[1] > op.ids[2]
  /\ ret.order = op.ids

\* C2: during a batched operation the number of chunk calls in flight never
\* exceeds the constructor's concurrency, or 4 when it was omitted
C2_InFlightWithinConcurrency ==
  op.batched => Cardinality(InFlight) <= ConcurrencyLimit

\* C2 witness: the default limit binds: 4 chunk calls in flight, a fifth waiting
C2_Witness ==
  /\ op.batched /\ ~options.concurrency.has
  /\ Cardinality(InFlight) = 4
  /\ Len(calls) < Len(chunked)

\* C3: once a chunk call of a batched operation has failed the operation has
\* thrown, and it never returns a result
C3_NoPartialSuccess ==
  (op.batched /\ \E c \in 1..Len(calls) : calls[c].state = "failed") => pc = "thrown"

\* C3 witness: one chunk succeeded, another failed, and the operation threw
C3_Witness ==
  /\ op.batched /\ pc = "thrown"
  /\ \E c \in 1..Len(calls) : calls[c].state = "failed"
  /\ \E c \in 1..Len(calls) : calls[c].state = "ok"

RequestPosition(c, i) ==
  (IF calls[c].task = 0 THEN 0 ELSE (calls[c].task - 1) * METHOD_MAX(op.method)) + i

\* C5: in a bulk view read the entry of position i is { id: ids[i], deleted:
\* true } when the raw record of position i is empty and the parsed record
\* tagged with ids[i] otherwise; positions never shift, and a read whose
\* calls all succeeded returns
C5_DeletedSentinel ==
  op.method \in ViewGetters =>
    /\ (pc = "returned" /\ Distinct(op.ids)) =>
         \A c \in 1..Len(calls) : \A i \in 1..Len(calls[c].ids) :
           LET id == calls[c].ids[i]
               raw == calls[c].answer[i]
           IN /\ op.ids[RequestPosition(c, i)] = id
              /\ ret.order[RequestPosition(c, i)] = id
              /\ ret.val[id] = IF Len(raw) = 0
                                 THEN [id |-> id, deleted |-> TRUE]
                                 ELSE [id |-> id, unitName |-> raw[2], decimals |-> raw[3]]
    /\ (/\ Len(calls) = (IF op.batched THEN Len(chunked) ELSE 1)
        /\ \A c \in 1..Len(calls) : calls[c].state = "ok") => pc = "returned"

\* C5 witness: three identifiers, the second raw record empty
C5_Witness ==
  /\ pc = "returned" /\ op.method \in ViewGetters /\ Distinct(op.ids)
  /\ Len(op.ids) = 3
  /\ Len(calls[1].answer[1]) > 0 /\ Len(calls[1].answer[2]) = 0 /\ Len(calls[1].answer[3]) > 0
  /\ ret.val[op.ids[2]] = [id |-> op.ids[2], deleted |-> TRUE]
  /\ ~IsDeletedEntry(ret.val[op.ids[1]]) /\ ~IsDeletedEntry(ret.val[op.ids[3]])

\* C6: a bulk getter with ceiling N serves n <= N identifiers with exactly
\* one remote call on the unbatched path; n > N identifiers are cut into
\* ceil(n/N) chunks, all of N identifiers but the last, each chunk is served
\* by one unbatched call carrying exactly that chunk, and a read that
\* returns has made exactly ceil(n/N) calls
C6_CallsPerRequest ==
  (op.method \in BatchedGetters /\ pc # "idle") =>
    LET N == METHOD_MAX(op.method)
        n == Len(op.ids)
    IN IF n <= N
         THEN /\ ~op.batched
              /\ Len(calls) = 1
              /\ calls[1].task = 0
              /\ calls[1].ids = op.ids
         ELSE /\ op.batched
              /\ Len(chunked) = CeilDiv(n, N)
              /\ \A k \in 1..Len(chunked) :
                   Len(chunked[k]) = IF k < Len(chunked) THEN N ELSE n - (k - 1) * N
              /\ Len(calls) <= Len(chunked)
              /\ \A c \in 1..Len(calls) :
                   /\ calls[c].task = c
                   /\ calls[c].ids = chunked[c]
                   /\ Len(calls[c].ids) <= N
              /\ pc = "returned" => Len(calls) = CeilDiv(n, N)

\* C6 witness: N + 1 identifiers were read with two calls, of N and of 1
C6_Witness ==
  /\ pc = "returned" /\ op.method \in BatchedGetters
  /\ Len(op.ids) = METHOD_MAX(op.method) + 1
  /\ Len(calls) = 2
  /\ Len(calls[1].ids) = METHOD_MAX(op.method) /\ Len(calls[2].ids) = 1

\* C7: on a client built without writeAccount every write method throws the
\* read-only error at once and no transport call is made
C7_ReadOnlyWritesFailFast ==
  (~options.writeAccount /\ op.method \in WriteMethods /\ pc # "idle") =>
    /\ pc = "thrown"
    /\ err = ReadOnlyError
    /\ calls = <<>>

\* C7 witness: addLabelToAssets with more ids than one submission takes, on a
\* read-only client
C7_Witness ==
  /\ ~options.writeAccount /\ op.method = "addLabelToAssets"
  /\ Len(op.ids) > addLabelToAssets_METHOD_MAX
  /\ pc = "thrown" /\ err = ReadOnlyError /\ calls = <<>>

\* C8: a failure whose message text holds a quoted code token reaches the
\* caller with exactly that token as its message
C8_TokenInMessageSurfaced ==
  (pc = "thrown" /\ raised.has /\ regexExec(raised.e.message).matched) =>
    err.message = regexExec(raised.e.message).group1

\* whether the normalizer of the call in progress finds a code in failure e
TokenFound(e) ==
  IF op.sdk = "abel-sdk-v2" THEN regexExec(e.message).matched
  ELSE IF op.method = "removeOperatorFromLabel" THEN FALSE
  ELSE e.hasEvalStates /\ \E i \in 1..Len(e.evalStates) : evalStateThrows(e.evalStates[i])

\* C9: a failure in which the normalizer finds no code reaches the caller
\* unchanged: the same error object with its message and properties intact
C9_UnrecognizedFailureUnchanged ==
  (pc = "thrown" /\ raised.has /\ ~TokenFound(raised.e)) => err = raised.e

\* C9 witness: a failure with a message and eval-states but no code was
\* thrown through unchanged
C9_Witness ==
  /\ pc = "thrown" /\ raised.has /\ ~TokenFound(raised.e)
  /\ op.sdk = "abel-sdk" /\ op.method = "hasLabel"
  /\ raised.e.hasEvalStates /\ Len(raised.e.evalStates) = 2
  /\ err = raised.e /\ err.obj = "transport"

\* C10: when the normalizer replaced the message by a code, the error that
\* reaches the caller still carries the original diagnostic text
C10_OriginalTextKept ==
  (pc = "thrown" /\ raised.has /\ err.message # raised.e.message) =>
    /\ err.hasOriginalMessage
    /\ err.originalMessage = raised.e.message

\* whether the last log of one of e's eval-states starts with ERR
CodeInLogs(e) ==
  e.hasEvalStates /\ \E i \in 1..Len(e.evalStates) : evalStateThrows(e.evalStates[i])

\* C11: a failure of a normalized call reaches the caller with the code as
\* its message both when the code is in one of the logs and when it is quoted
\* in the message text
C11_TokenInEitherPlaceSurfaced ==
  (pc = "thrown" /\ raised.has /\ op.sdk = "abel-sdk" /\ op.method # "removeOperatorFromLabel") =>
    /\ CodeInLogs(raised.e) => err.message = wrapErrors(raised.e).message
    /\ (~CodeInLogs(raised.e) /\ regexExec(raised.e.message).matched) =>
         err.message = regexExec(raised.e.message).group1

\* C12: every write method surfaces a remote rejection that carries a code
\* in its logs with exactly that code as message, removeOperatorFromLabel
\* included
C12_EveryWriteNormalized ==
  (/\ pc = "thrown" /\ raised.has
   /\ op.sdk = "abel-sdk" /\ op.method \in WriteMethods
   /\ CodeInLogs(raised.e))
  => err.message = <<"ERR", ":", "x">>

\* the documented ceiling of a bulk getter
Ceiling(method) ==
  CASE method = "getAssetsMicro" -> 128
    [] method = "getAssetsMicroLabels" -> 64
    [] method = "getAssetsTiny" -> 128
    [] method = "getAssetsTinyLabels" -> 64
    [] method = "getAssetsText" -> 128
    [] method = "getAssetsTextLabels" -> 64
    [] method = "getAssetsSmall" -> 64
    [] method = "getAssetsFull" -> 42
    [] method = "getAssetsLabels" -> 128

\* C19: the ceilings of the bulk getters are 128, 64, 128, 64, 128, 64, 64
\* and 42 for the eight views and 128 for the label-set lookup, and no remote
\* call of a getter carries more identifiers than its ceiling
C19_CeilingsRespected ==
  /\ \A method \in BatchedGetters : METHOD_MAX(method) = Ceiling(method)
  /\ \A c \in 1..Len(calls) :
       calls[c].method \in BatchedGetters => Len(calls[c].ids) <= Ceiling(calls[c].method)

\* C19 witness: 43 identifiers read with getAssetsFull, the first call
\* carrying 42 of them and the second one
C19_Witness ==
  /\ op.method = "getAssetsFull" /\ Len(op.ids) = 43
  /\ Len(calls) = 2
  /\ Len(calls[1].ids) = 42 /\ Len(calls[2].ids) = 1

\* C16: the funding payment and the label creation of addLabel commit
\* together or not at all: the registry never holds more or fewer funding
\* payments than label creations, and addLabel submits both in one group of
\* one remote call
C16_AddLabelAtomic ==
  /\ registry.payments = registry.creations
  /\ (op.method = "addLabel" /\ pc # "idle") =>
       /\ Len(calls) = 1
       /\ Len(calls[1].group) = 2
       /\ calls[1].group[1].method = "payment"
       /\ calls[1].group[2].method = "addLabel"
       /\ pc = "thrown" => calls[1].state = "failed"

\* C16 witness: a second addLabel of the same id was rejected with
\* ERR:EXISTS and the registry still holds one payment and one creation
C16_Witness ==
  /\ op.method = "addLabel" /\ pc = "thrown"
  /\ err.message = ERR_EXISTS
  /\ op.ids[1] \in registry.labels
  /\ registry.payments = 1 /\ registry.creations = 1

RECURSIVE Flatten(_)
Flatten(seqs) == IF Len(seqs) = 0 THEN <<>> ELSE Head(seqs) \o Flatten(Tail(seqs))

\* C17: addLabelToAssets with at most 126 asset ids makes one submission
\* whose group carries every requested id; once it is over either every
\* requested asset carries the label (it returned) or none gained it (it threw)
C17_SmallAttachAtomic ==
  (/\ op.method = "addLabelToAssets" /\ pc # "idle" /\ writeAccount
   /\ Len(op.ids) <= 126)
  => /\ Len(calls) = 1
     /\ calls[1].kind = "send"
     /\ Flatten([i \in 1..Len(calls[1].group) |-> calls[1].group[i].assets]) = op.ids
     /\ pc = "pending" => registry.labelled = {}
     /\ pc = "returned" => registry.labelled = Range(op.ids)
     /\ pc = "thrown" => registry.labelled = {}

\* C17 witness: 126 asset ids were labelled by one group of 16 calls
C17_Witness ==
  /\ op.method = "addLabelToAssets" /\ pc = "returned"
  /\ Len(op.ids) = 126
  /\ Len(calls) = 1 /\ Len(calls[1].group) = 16
  /\ Cardinality(registry.labelled) = 126

\* C18: of two calls running at once on a client with limit C, each has at
\* most C remote calls in flight by itself; the limit is not shared, so the
\* two together have at most 2*C
C18_LimitIsPerCall ==
  (op.batched /\ peer.chunked # <<>>) =>
    /\ Cardinality(InFlight) <= ConcurrencyLimit
    /\ Cardinality(PeerInFlight) <= ConcurrencyLimit
    /\ Cardinality(InFlight) + Cardinality(PeerInFlight) <= 2 * ConcurrencyLimit

\* C18 witness: with concurrency 2 both calls have 2 remote calls in flight,
\* 4 together, and each still has a chunk waiting
C18_Witness ==
  /\ op.batched /\ peer.chunked # <<>>
  /\ options.concurrency.has /\ options.concurrency.value = 2
  /\ Cardinality(InFlight) = 2 /\ Cardinality(PeerInFlight) = 2
  /\ Len(calls) < Len(chunked)
  /\ Len(peer.calls) < Len(peer.chunked)

\* C26: changeLabel on a client with writeAccount, called with a name or a
\* url that is undefined or null, throws the error naming the first such
\* argument and makes no remote call
C26_ChangeLabelRejectsNullish ==
  (/\ op.method = "changeLabel" /\ pc # "idle" /\ options.writeAccount
   /\ (op.ids[1] \in {"undefined", "null"} \/ op.ids[2] \in {"undefined", "null"}))
  => /\ pc = "thrown"
     /\ calls = <<>>
     /\ err = IF op.ids[1] \in {"undefined", "null"}
                THEN NewError(<<"name must be defined">>)
                ELSE NewError(<<"url must be defined">>)

\* C26 witness: a defined name and a null url: the url error, no remote call
C26_Witness ==
  /\ op.method = "changeLabel" /\ options.writeAccount
  /\ op.ids = <<"text", "null">>
  /\ pc = "thrown" /\ calls = <<>>
  /\ err = NewError(<<"url must be defined">>)

\* the asset ids a returned submission result confirms, in order
ConfirmedAssets(result) ==
  Flatten([i \in 1..Len(result.confirmed) |-> result.confirmed[i].assets])

\* C27: addLabelToAssets with more than 126 ids cuts them into chunks of at
\* most 126 and returns an array with one result per chunk, in chunk order,
\* whatever order the submissions completed in; with at most 126 ids it
\* returns the single result of its one submission
C27_AttachResultShape ==
  (op.method = "addLabelToAssets" /\ pc = "returned") =>
    LET n == Len(op.ids)
    IN IF n > 126
         THEN /\ DOMAIN ret = {"array"}
              /\ Len(ret.array) = CeilDiv(n, 126)
              /\ Len(chunked) = CeilDiv(n, 126)
              /\ \A k \in 1..Len(ret.array) :
                   /\ Len(chunked[k]) <= 126
                   /\ ConfirmedAssets(ret.array[k]) =
                        SubSeq(op.ids, (k - 1) * 126 + 1, Min(k * 126, n))
         ELSE /\ DOMAIN ret = {"confirmed"}
              /\ ConfirmedAssets(ret) = op.ids

\* C27 witness: 127 ids, the second chunk's submission completed first, and
\* the array holds the result of the first chunk first
C27_Witness ==
  /\ op.method = "addLabelToAssets" /\ pc = "returned"
  /\ Len(op.ids) = 127
  /\ completions = <<2, 1>>
  /\ Len(ret.array) = 2
  /\ Len(ConfirmedAssets(ret.array[1])) = 126
  /\ Len(ConfirmedAssets(ret.array[2])) = 1

\* C28: the chunks of an addLabelToAssets with more than 126 ids are
\* submissions of their own: what a chunk committed stays committed when
\* another chunk fails, and the operation throws as soon as one chunk failed
C28_ChunksCommitIndependently ==
  (op.method = "addLabelToAssets" /\ op.batched) =>
    /\ registry.labelled =
         UNION {Range(calls[c].ids) : c \in {k \in 1..Len(calls) : calls[k].state = "ok"}}
    /\ (\E c \in 1..Len(calls) : calls[c].state = "failed") => pc = "thrown"
    /\ \A c \in 1..Len(calls) : calls[c].kind = "send" /\ calls[c].ids = chunked[c]

\* C28 witness: of 127 ids the first chunk committed, the second failed: the
\* operation threw and 126 assets carry the label
C28_Witness ==
  /\ op.method = "addLabelToAssets" /\ op.batched /\ pc = "thrown"
  /\ Len(op.ids) = 127 /\ Len(calls) = 2
  /\ calls[1].state = "ok" /\ calls[2].state = "failed"
  /\ Cardinality(registry.labelled) = 126

\* C29: once a chunk call of a batched operation has failed no further
\* chunk call is made
C29_NoChunkStartedAfterFailure ==
  [][(op.batched /\ \E c \in 1..Len(calls) : calls[c].state = "failed")
       => Len(calls') = Len(calls)]_vars

\* C29 witness: the first chunk call to complete failed, another one
\* succeeded after it, nothing is in flight and chunks were never sent
C29_Witness ==
  /\ op.batched /\ pc = "thrown"
  /\ Len(completions) >= 2
  /\ calls[completions[1]].state = "failed"
  /\ calls[completions[2]].state = "ok"
  /\ InFlight = {}
  /\ Len(calls) < Len(chunked)

\* C30: the group of a submission of n <= 126 asset ids has ceil((n+2)/8)
\* calls, between 1 and 16; the first carries the first min(n, 6) ids after
\* the label and operator references, every later one between 1 and 8 ids;
\* no call has more than 8 box references, every id has its box reference
\* in its own call, and the calls' ids in order are the requested ids
C30_GroupShape ==
  \A c \in 1..Len(calls) :
    (calls[c].method = "addLabelToAssets" /\ Len(calls[c].ids) <= 126) =>
      LET ids == calls[c].ids
          n == Len(ids)
          g == calls[c].group
      IN /\ Len(g) = CeilDiv(n + 2, 8)
         /\ Len(g) >= 1 /\ Len(g) <= 16
         /\ g[1].assets = SubSeq(ids, 1, Min(n, 6))
         /\ g[1].boxReferences =
              <<"wo", "operatorBox">> \o [k \in 1..Min(n, 6) |-> <<"uint64", ids[k]>>]
         /\ \A i \in 2..Len(g) :
              /\ Len(g[i].assets) >= 1 /\ Len(g[i].assets) <= 8
              /\ g[i].boxReferences = [k \in 1..Len(g[i].assets) |-> <<"uint64", g[i].assets[k]>>]
         /\ \A i \in 1..Len(g) : Len(g[i].boxReferences) <= 8
         /\ Flatten([i \in 1..Len(g) |-> g[i].assets]) = ids

\* C30 witness: 15 ids in three calls of 6, 8 and 1 ids
C30_Witness ==
  /\ op.method = "addLabelToAssets" /\ Len(op.ids) = 15 /\ Len(calls) = 1
  /\ Len(calls[1].group) = 3
  /\ Len(calls[1].group[1].assets) = 6
  /\ Len(calls[1].group[2].assets) = 8
  /\ Len(calls[1].group[3].assets) = 1

\* C21: getLabelDescriptor resolves to the descriptor of the label tagged
\* with its id when the registry holds the label, and to null when it does
\* not
C21_DescriptorOrNull ==
  (op.method = "getLabelDescriptor" /\ pc \in {"returned", "thrown"}) =>
    /\ pc = "returned"
    /\ ret = IF op.ids[1] \in registry.labels
               THEN withId(op.ids[1], registry.descriptors[op.ids[1]])
               ELSE Null

\* the code is part of the message text
Mentions(message, code) ==
  \E i \in 1..Len(message) :
    i + Len(code) - 1 <= Len(message) /\ SubSeq(message, i, i + Len(code) - 1) = code

\* C23: after any sequence of addLabel and removeLabel calls every label id
\* of the registry has one descriptor, written by the one creation of the id
\* that was not removed since; addLabel of an id that exists fails with an
\* error that mentions ERR:EXISTS and leaves the registry, the name and the
\* counts of the existing descriptor included, as it was
C23_OneDescriptorPerLabel ==
  [][/\ DOMAIN registry'.descriptors = registry'.labels
     /\ Cardinality(registry'.labels) = registry'.creations - registry'.removals
     /\ (op.method = "addLabel" /\ pc = "pending" /\ op.ids[1] \in registry.labels) =>
          /\ pc' = "thrown"
          /\ Mentions(err'.message, ERR_EXISTS)
          /\ registry' = registry]_vars

\* C23 witness: addLabel of an existing id under another name was rejected;
\* the label keeps its name and its one operator
C23_Witness ==
  /\ op.method = "addLabel" /\ pc = "thrown"
  /\ Mentions(err.message, ERR_EXISTS)
  /\ op.ids[1] \in registry.labels
  /\ registry.descriptors[op.ids[1]].name # op.ids[2]
  /\ registry.descriptors[op.ids[1]].numOperators = 1

C25_CountsMatch ==
  [][/\ \A l \in registry'.labels :
          /\ registry'.descriptors[l].numOperators = Cardinality(OperatorsOf(registry', l))
          /\ registry'.descriptors[l].numAssets = Cardinality(AssetsOf(registry', l))
     /\ (op'.method = "getLabelDescriptor" /\ pc' = "returned" /\ ret' # Null) =>
          /\ ret'.numOperators = Cardinality(OperatorsOf(registry', op'.ids[1]))
          /\ ret'.numAssets = Cardinality(AssetsOf(registry', op'.ids[1]))
     /\ (op.method = "addLabel" /\ pc = "pending" /\ pc' = "returned") =>
          /\ registry'.descriptors[op.ids[1]].numOperators = 0
          /\ registry'.descriptors[op.ids[1]].numAssets = 0]_vars

\* C25 witness: after a revocation one label has one operator and two
\* assets, the other two operators and no asset
C25_Witness ==
  /\ op.method = "removeOperatorFromLabel" /\ pc = "returned"
  /\ registry.labels = LabelIds
  /\ registry.descriptors[op.ids[1]].numOperators = 1
  /\ registry.descriptors[op.ids[1]].numAssets = 2
  /\ \E l \in LabelIds :
       /\ registry.descriptors[l].numOperators = 2
       /\ registry.descriptors[l].numAssets = 0

\* C22: every step of a read operation leaves the registry as it is, every
\* remote call a read operation makes is a simulate on the read client, and
\* no read operation throws the read-only error, with or without a write
\* account
C22_ReadsOnlySimulate ==
  [][(op.method \in ReadMethods \/ op'.method \in ReadMethods) =>
       /\ registry' = registry
       /\ \A c \in 1..Len(calls') :
            calls'[c].kind = "simulate" /\ calls'[c].client = "readClient"
       /\ ~(pc' = "thrown" /\ err' = ReadOnlyError)]_vars

\* C22 witness: on a client without a write account getOperatorLabels
\* returned the labels of an operator from its one simulate, and the registry
\* is the seeded one
C22_Witness ==
  /\ ~writeAccount
  /\ op.method = "getOperatorLabels" /\ pc = "returned"
  /\ ret = [array |-> <<"wo">>]
  /\ Len(calls) = 1 /\ calls[1].kind = "simulate" /\ calls[1].state = "ok"
  /\ registry = SeededRegistry

\* C13: for every array and every chunkSize > 0, chunk returns slices whose
\* concatenation in order is the array; every slice has between 1 and
\* chunkSize elements and every slice but the last exactly chunkSize
C13_ChunkPartitions ==
  (util.fn = "chunk" /\ util.done /\ util.chunkSize > 0) =>
    /\ ~util.threw
    /\ Flatten(util.result) = util.array
    /\ \A k \in 1..Len(util.result) :
         /\ Len(util.result[k]) >= 1
         /\ Len(util.result[k]) <= util.chunkSize
         /\ k < Len(util.result) => Len(util.result[k]) = util.chunkSize

\* C13 witness: four elements cut by 3 into a full chunk and a shorter last one
C13_Witness ==
  /\ util.fn = "chunk" /\ util.done /\ util.chunkSize = 3
  /\ Len(util.array) = 4
  /\ Len(util.result) = 2
  /\ Len(util.result[1]) = 3 /\ Len(util.result[2]) = 1
  /\ util.result[1] \o util.result[2] = util.array

\* C14: chunk with a chunkSize of 0 or below throws for every array, the
\* empty one included, and returns no chunks
C14_ChunkRejectsNonPositive ==
  (util.fn = "chunk" /\ util.done /\ util.chunkSize <= 0) =>
    /\ util.threw
    /\ util.result = <<>>

\* C14 witness: chunk([], 0) threw
C14_Witness ==
  /\ util.fn = "chunk" /\ util.done /\ util.chunkSize = 0 /\ util.array = <<>>
  /\ util.threw

\* the last map of maps that has key k
LastWith(maps, k) ==
  CHOOSE i \in 1..Len(maps) :
    /\ MapHas(maps[i], k)
    /\ \A j \in (i + 1)..Len(maps) : ~MapHas(maps[j], k)

\* C15: mergeMapsArr returns a map whose keys are the union of the inputs'
\* keys, each once, and in which every key holds the value of the last input
\* that has it; an empty list gives an empty map
C15_MergeLastWins ==
  (util.fn = "mergeMapsArr" /\ util.done) =>
    LET keys == UNION {DOMAIN util.maps[i].val : i \in 1..Len(util.maps)}
    IN /\ DOMAIN util.result.val = keys
       /\ Range(util.result.order) = keys
       /\ Distinct(util.result.order)
       /\ \A k \in keys : util.result.val[k] = util.maps[LastWith(util.maps, k)].val[k]
       /\ util.maps = <<>> => util.result = EmptyMap

\* C15 witness: [{x:1}, {x:2, y:2}] merged into {x:2, y:2}
C15_Witness ==
  /\ util.fn = "mergeMapsArr" /\ util.done
  /\ Len(util.maps) = 2
  /\ util.maps[1].order = <<"x">> /\ util.maps[1].val["x"] = 1
  /\ util.maps[2].order = <<"x", "y">> /\ util.maps[2].val["x"] = 2
  /\ util.result.order = <<"x", "y">>
  /\ util.result.val["x"] = 2 /\ util.result.val["y"] = 2

====
